---- MODULE Spec2Model ----
(***************************************************************************)
(* SVG2Gcode / SVGcut: G-code generation view model and the CAM tab        *)
(* splitter.                                                               *)
(*                                                                         *)
(* The repository holds several revisions of GcodeGenerationViewModel.     *)
(* The revision in js/SelectionViewModel.js builds the program text        *)
(* inline (preamble, per-operation header, postamble); the revision in      *)
(* src/GcodeGenerationViewModel.js builds a job and one operation card per  *)
(* operation and hands them to Gcode.Generator.  Both share the guard,      *)
(* the operation filter, the clamps and the warnings.  The action           *)
(* generateGcode below stores the text the first one produces in `gcode'    *)
(* and the job the second one builds in `job'.                              *)
(*                                                                         *)
(* Lengths are integers in G-code units: the variables hold the values      *)
(* the code reads through toUnits(gunits).                                  *)
(***************************************************************************)
EXTENDS Integers, Sequences, FiniteSets, TLC

VARIABLES
  operations,   \* App.models.Operations.operations()
  units,        \* this.units / unitConverter.units()
  returnTo00,   \* this.returnTo00
  passDepth,    \* App.models.Tool.passDepth.toUnits(gunits)
  maxCutDepth,  \* App.models.Tabs.maxCutDepth.toUnits(gunits)
  topZ,         \* App.models.Material.topZ.toUnits(gunits)
  gcode,        \* this.gcode: the stored program, a sequence of lines
  job,          \* the job handed to the emitter, with its operation cards
  alerts,       \* App.showAlert calls made by the latest generateGcode
  genOutcome,   \* how the latest generateGcode call returned
  jobTabs,      \* App.models.Tabs.tabs()
  toolDiameter, \* App.models.Tool.diameter.toUnits("integer")
  origin,       \* this.origin
  extraOffsetX, \* this.extraOffsetX
  extraOffsetY, \* this.extraOffsetY
  svgBB,        \* this.getSVGBB()
  tpBB,         \* App.models.Operations.getBounds(), in G-code units
  toolPath,     \* separateTabs argument
  tabGeometry,  \* separateTabs argument
  separated,    \* separateTabs outcome
  camArgs,      \* arguments of the pocket / outline / engrave call
  geometry,     \* the geometry argument, as the caller holds it
  camPc,        \* position in the call
  current,      \* pocket, outline: current
  allPaths,     \* pocket, outline, engrave: allPaths
  currentWidth, \* outline: currentWidth
  clipPoly,     \* pocket: clipPoly; outline: bounds
  camResult,    \* the CamPath list returned
  svgContent,   \* the elements of the content group of #MainSvg
  svgGroup,     \* SelectionViewModel.svgGroup: the selectedPath elements
  numSelected,  \* SelectionViewModel.numSelected
  clickTimers,  \* click handlers waiting in setTimeout(.., 200)
  copiesMade,   \* number of selectedPath elements created so far
  currentTutorialStep, \* App.currentTutorialStep
  tutorialAlert,       \* the step whose message is displayed, 0 for none
  tutorialSteps,       \* the steps with a message in #tutorialSteps
  requestedSteps,      \* the steps tutorial() has been called with
  thickness,    \* MaterialViewModel.thickness
  clearance,    \* MaterialViewModel.clearance
  zOrigin,      \* MaterialViewModel.zOrigin
  materialTopZ, \* MaterialViewModel.topZ, the value of the computed
  botZ,         \* MaterialViewModel.botZ
  zSafeMove     \* MaterialViewModel.zSafeMove

vars == << operations, units, returnTo00, passDepth, maxCutDepth, topZ,
           gcode, job, alerts, genOutcome, jobTabs, toolDiameter, origin,
           extraOffsetX, extraOffsetY, svgBB, tpBB, toolPath,
           tabGeometry, separated,
           camArgs, geometry, camPc, current, allPaths, currentWidth,
           clipPoly, camResult, svgContent, svgGroup, numSelected,
           clickTimers, copiesMade, currentTutorialStep, tutorialAlert,
           tutorialSteps, requestedSteps, thickness, clearance, zOrigin,
           materialTopZ, botZ, zSafeMove >>

selVars == << svgContent, svgGroup, numSelected, clickTimers, copiesMade >>

tutorialVars == << currentTutorialStep, tutorialAlert, tutorialSteps,
                   requestedSteps >>

materialVars == << thickness, clearance, zOrigin, materialTopZ, botZ,
                   zSafeMove >>

uiVars == << selVars, tutorialVars, materialVars >>

camVars == << camArgs, geometry, camPc, current, allPaths, currentWidth,
              clipPoly, camResult >>

gcodeVars == << operations, units, returnTo00, passDepth, maxCutDepth, topZ,
                gcode, job, alerts, genOutcome, jobTabs, toolDiameter,
                origin, extraOffsetX, extraOffsetY, svgBB, tpBB >>

\* what generateGcode reads
inputVars == << operations, units, returnTo00, passDepth, maxCutDepth, topZ,
                jobTabs, toolDiameter, origin, extraOffsetX, extraOffsetY,
                svgBB, tpBB >>

tabVars == << toolPath, tabGeometry, separated >>

----------------------------------------------------------------------------
(* Bounds and input domains *)

MaxOps == 2

OpKinds == { "Pocket", "Perforate", "Drill" }

CutDepths == { -1, 1 }

PassDepths == { -1, 0, 1 }

TabCutDepths == { -1, 1 }

TopZs == { 0, 1 }

\* toolPaths holds the length of op.toolPaths(), a null list counted as 0
OperationValues ==
  [ enabled : BOOLEAN, toolPaths : 0..1, operation : OpKinds,
    cutDepth : CutDepths ]

OperationLists == UNION { [ 1..n -> OperationValues ] : n \in 0..MaxOps }

MaxJobTabs == 2

MaxTabX == 2

\* diameters are even, so that the cutter radius is a whole number
ToolDiameters == { 2, 4 }

\* a tab's combinedGeometry: the cells lo..hi of a line that it covers, none
\* for a tab whose geometry has been removed
TabShapes == { lo..hi : lo \in 0..MaxTabX, hi \in 0..MaxTabX }

TabValues == [ enabled : BOOLEAN, combinedGeometry : TabShapes ]

TabLists == UNION { [ 1..n -> TabValues ] : n \in 0..MaxJobTabs }

\* emitted lists, for each operation added, the tab geometry the emitter
\* found on the job when the operation was added
NoJob ==
  [ passDepth |-> 0, tabZ |-> 0, topZ |-> 0, offsetX |-> 0, offsetY |-> 0,
    tabGeometry |-> { }, ops |-> << >>, emitted |-> << >> ]

Units == { "mm", "inch" }

\* a value of the units observable the G-code has no directive for
OtherUnits == { "px" }

Origins == { "SVG page", "Bounding box", "Centre" }

ExtraOffsets == { 0, 1 }

MaxCoord == 2

MaxStep == 5

MaxElems == 2

MaxCopies == 3

MaxTimers == 2

\* "path": a path of the drawing; "rect": another shape that
\* SnapPaths.fromElement converts; "other": an element with one of the
\* classes combinedGeometry, toolPath, tabsGeometry
ElemKinds == { "path", "rect", "other" }

SvgContents == UNION { [ 1..n -> ElemKinds ] : n \in 1..MaxElems }

MaxInputTabs == 1

\* new Rect(x, y, width, height), Y growing downwards
Rect(x, y, width, height) ==
  [ x |-> x, y |-> y, width |-> width, height |-> height ]

RectLeft(r) == r.x

RectBottom(r) == r.y + r.height

\* the SVG page, and tool path bounds that lie on it; widths and heights are
\* even, so that their halves are whole numbers
PageRects == { Rect(x, y, 10, 10) : x \in 0..MaxCoord, y \in 0..MaxCoord }

ToolPathRects ==
  { Rect(x, y, w, h) : x \in 0..(2 * MaxCoord), y \in 0..(2 * MaxCoord),
                       w \in { 2, 4 }, h \in { 2, 4 } }

\* the rectangle inner lies on the rectangle outer
RectWithin(inner, outer) ==
  /\ outer.x <= inner.x
  /\ inner.x + inner.width <= outer.x + outer.width
  /\ outer.y <= inner.y
  /\ inner.y + inner.height <= outer.y + outer.height

----------------------------------------------------------------------------
(* generateGcode *)

Line(text, arg) == [ text |-> text, arg |-> arg ]

Alert(id, param) == [ id |-> id, param |-> param ]

OpIsPushedWhenEnabled(op) == op.enabled

\* op.enabled() and op.toolPaths() != null && op.toolPaths().length > 0
OpIsPushed(op) == op.enabled /\ op.toolPaths > 0

\* the operations that are enabled and have tool paths, as list indices
RECURSIVE EnabledOpsFrom(_, _)
EnabledOpsFrom(opList, i) ==
  IF i > Len(opList) THEN << >>
  ELSE IF OpIsPushed(opList[i])
       THEN << i >> \o EnabledOpsFrom(opList, i + 1)
       ELSE EnabledOpsFrom(opList, i + 1)

EnabledOps(opList) == EnabledOpsFrom(opList, 1)

NoOperationsIgnored(ops) == FALSE

\* ops.length === 0
NoOperations(ops) == Len(ops) = 0

ClampPassDepthMissing(pd) == pd

ClampPassDepth(pd) == IF pd < 0 THEN 0 ELSE pd

PassDepthAlerts(pd) ==
  IF pd < 0 THEN << Alert("passDepthTooSmall", pd) >> ELSE << >>

ClampCutDepthMissing(cd) == cd

ClampCutDepth(cd) == IF cd < 0 THEN 0 ELSE cd

CutDepthAlerts(cd) ==
  IF cd < 0 THEN << Alert("cutDepthTooSmall", 0) >> ELSE << >>

\* the test of the revision that has no Drill operation
IsPrecalcPerforateOnly(op) == op.operation = "Perforate"

IsPrecalc(op) == op.operation = "Perforate" \/ op.operation = "Drill"

\* the operation card of src/GcodeGenerationViewModel.js
OpCard(opList, i, jobPassDepth) ==
  [ name           |-> i,
    cutType        |-> opList[i].operation,
    cutDepth       |-> ClampCutDepth(opList[i].cutDepth),
    passDepth      |-> IF IsPrecalc(opList[i]) THEN opList[i].cutDepth
                       ELSE jobPassDepth,
    precalculatedZ |-> IsPrecalc(opList[i]) ]

RECURSIVE OpCards(_, _, _)
OpCards(opList, idx, jobPassDepth) ==
  IF idx = << >> THEN << >>
  ELSE << OpCard(opList, Head(idx), jobPassDepth) >>
       \o OpCards(opList, Tail(idx), jobPassDepth)

RECURSIVE OpAlerts(_, _)
OpAlerts(opList, idx) ==
  IF idx = << >> THEN << >>
  ELSE CutDepthAlerts(opList[Head(idx)].cutDepth) \o OpAlerts(opList, Tail(idx))

\* the values generateGcode reads, as the view models hold them now
Inputs ==
  [ operations |-> operations, units |-> units, returnTo00 |-> returnTo00,
    passDepth |-> passDepth, maxCutDepth |-> maxCutDepth, topZ |-> topZ,
    tabs |-> jobTabs, toolDiameter |-> toolDiameter, origin |-> origin,
    extraOffsetX |-> extraOffsetX, extraOffsetY |-> extraOffsetY,
    svgBB |-> svgBB, tpBB |-> tpBB ]

\* let ox = svgBB.left + this.extraOffsetX() and what is added to it
OffsetX(in) ==
  LET ox0 == RectLeft(in.svgBB) + in.extraOffsetX
      ox1 == IF in.origin \in { "Bounding box", "Centre" }
             THEN ox0 + (RectLeft(in.tpBB) - RectLeft(in.svgBB)) ELSE ox0
  IN  IF in.origin = "Centre" THEN ox1 + (in.tpBB.width \div 2) ELSE ox1

\* let oy = svgBB.bottom + this.extraOffsetY() and what is added to it
OffsetY(in) ==
  LET oy0 == RectBottom(in.svgBB) + in.extraOffsetY
      oy1 == IF in.origin \in { "Bounding box", "Centre" }
             THEN oy0 + (RectBottom(in.svgBB) - RectBottom(in.tpBB)) ELSE oy0
  IN  IF in.origin = "Centre" THEN oy1 + (in.tpBB.height \div 2) ELSE oy1

\* new Gcode.Generator({..}), then job.tabZ = job.topZ - tabCutDepth and
\* the passDepth clamp
NewJob(in, pd) ==
  [ passDepth |-> pd, tabZ |-> in.topZ - in.maxCutDepth, topZ |-> in.topZ,
    offsetX |-> OffsetX(in), offsetY |-> OffsetY(in),
    tabGeometry |-> { }, ops |-> << >>, emitted |-> << >> ]

\* App.models.Tool.diameter.toUnits("integer") / 2
Bloat(diameter) == diameter \div 2

\* CutPaths.offset: the cells within delta of a cell of the geometry
OffsetCells(geom, delta) ==
  { x \in (0 - delta)..(MaxTabX + delta) :
      \E p \in geom : x - p <= delta /\ p - x <= delta }

\* CutPaths.union
UnionCells(a, b) == a \cup b

TabIsUsedAlways(tab) == TRUE

\* if (tab.enabled())
TabIsUsed(tab) == tab.enabled

\* the loop over the tabs, from tab i on
RECURSIVE BuildTabGeometry(_, _, _, _)
BuildTabGeometry(tabList, i, acc, diameter) ==
  IF i > Len(tabList) THEN acc
  ELSE IF TabIsUsed(tabList[i])
       THEN BuildTabGeometry(tabList, i + 1,
              UnionCells(acc, OffsetCells(tabList[i].combinedGeometry,
                                          Bloat(diameter))),
              diameter)
       ELSE BuildTabGeometry(tabList, i + 1, acc, diameter)

\* job.tabGeometry = tabGeometry
AttachTabGeometry(j, tabList, diameter) ==
  [ j EXCEPT !.tabGeometry = BuildTabGeometry(tabList, 1, { }, diameter) ]

\* job.addOperation(opCard): the emitter takes the card and works with the
\* tab geometry the job holds at this moment
AddOperation(j, opCard) ==
  [ j EXCEPT !.ops = Append(@, opCard),
             !.emitted = Append(@, [ name |-> opCard.name,
                                     tabGeometry |-> j.tabGeometry ]) ]

RECURSIVE AddOperations(_, _)
AddOperations(j, cards) ==
  IF cards = << >> THEN j
  ELSE AddOperations(AddOperation(j, Head(cards)), Tail(cards))

\* the lines Gcode.generate returns for one operation
GcodeGenerate(i) == << Line("Gcode.generate", i) >>

UnitsSupportedAlways(gunits) == TRUE

\* the cases of the switch that do not throw
UnitsSupported(gunits) == gunits = "inch" \/ gunits = "mm"

\* the line the switch pushes
UnitsDirective(gunits) ==
  IF gunits = "inch" THEN << Line("G20 ; Set units to inches", 0) >>
  ELSE IF gunits = "mm" THEN << Line("G21 ; Set units to mm", 0) >>
  ELSE << >>

Preamble(gunits) ==
  << Line("; Work area:", 0), Line("; Offset:", 0) >>
  \o UnitsDirective(gunits)
  \o << Line("G90 ; Absolute positioning", 0),
        Line("G0 Z<safeZ> F<rapidRate> ; Move to clearance level", 0) >>

OpLines(opList, i, pd) ==
  << Line("; ** Operation **", i),
     Line("; Name:", i),
     Line("; Type:", i),
     Line("; Paths:", opList[i].toolPaths),
     Line("; Direction:", i),
     Line("; Cut Depth:", ClampCutDepth(opList[i].cutDepth)),
     Line("; Pass Depth:", pd),
     Line("; Plunge rate:", 0) >>
  \o GcodeGenerate(i)

RECURSIVE AllOpLines(_, _, _)
AllOpLines(opList, idx, pd) ==
  IF idx = << >> THEN << >>
  ELSE OpLines(opList, Head(idx), pd) \o AllOpLines(opList, Tail(idx), pd)

ReturnLine == Line("G0 X0 Y0 F<rapidRate> ; Return to 0,0", 0)

EndLine == Line("M2 ; end program", 0)

\* the M2 line taken as part of the if statement, as its indentation suggests
PostambleBraced(ret) ==
  IF ret THEN << ReturnLine, EndLine >> ELSE << >>

PostambleAlwaysReturns(ret) == << ReturnLine, EndLine >>

Postamble(ret) ==
  (IF ret THEN << ReturnLine >> ELSE << >>) \o << EndLine >>

Program(opList, idx, gunits, pd, ret) ==
  Preamble(gunits) \o AllOpLines(opList, idx, pd) \o Postamble(ret)

\* App.tutorial(step)
Tutorial(step) ==
  /\ requestedSteps' = requestedSteps \cup { step }
  /\ IF step > currentTutorialStep
     THEN IF step \in tutorialSteps
          THEN /\ tutorialAlert' = step
               /\ currentTutorialStep' = step
          ELSE /\ tutorialAlert' = 0
               /\ UNCHANGED currentTutorialStep
     ELSE UNCHANGED << tutorialAlert, currentTutorialStep >>
  /\ UNCHANGED tutorialSteps

\* the job generateGcode builds from the values in
JobOf(in) ==
  LET pd == ClampPassDepth(in.passDepth)
  IN  AddOperations(
        AttachTabGeometry(NewJob(in, pd), in.tabs, in.toolDiameter),
        OpCards(in.operations, EnabledOps(in.operations), pd))

\* the program generateGcode stores for the values in
ProgramOf(in) ==
  Program(in.operations, EnabledOps(in.operations), in.units,
          ClampPassDepth(in.passDepth), in.returnTo00)

\* the body of generateGcode, reading the values in
GenerateFrom(in) ==
  LET ops == EnabledOps(in.operations)
  IN  IF NoOperations(ops)
      THEN /\ genOutcome' = "noOps"
           /\ alerts' = << >>
           /\ UNCHANGED << gcode, job >>
           /\ UNCHANGED tutorialVars
      ELSE IF ~UnitsSupported(in.units)
      THEN /\ genOutcome' = "threw"
           /\ alerts' = PassDepthAlerts(in.passDepth)
           /\ UNCHANGED << gcode, job >>
           /\ UNCHANGED tutorialVars
      ELSE /\ genOutcome' = "generated"
           /\ Tutorial(5)
           /\ job' = JobOf(in)
           /\ alerts' = PassDepthAlerts(in.passDepth)
                           \o OpAlerts(in.operations, ops)
           /\ gcode' = ProgramOf(in)

\* the body of generateGcode, run with returnTo00 = ret
Generate(ret) == GenerateFrom([ Inputs EXCEPT !.returnTo00 = ret ])

\* UPDATE_GCODE / TOOL_PATHS_CHANGED listener
generateGcode ==
  /\ Generate(returnTo00)
  /\ UNCHANGED inputVars
  /\ UNCHANGED tabVars
  /\ UNCHANGED camVars
  /\ UNCHANGED << selVars, materialVars >>

\* the user flips the returnTo00 observable; its subscription regenerates
setReturnTo00 ==
  /\ returnTo00' = ~returnTo00
  /\ Generate(returnTo00')
  /\ UNCHANGED << operations, units, passDepth, maxCutDepth, topZ,
                  jobTabs, toolDiameter, origin, extraOffsetX, extraOffsetY,
                  svgBB, tpBB >>
  /\ UNCHANGED tabVars
  /\ UNCHANGED camVars
  /\ UNCHANGED << selVars, materialVars >>

\* what a call of generateGcode sets
outputVars == << gcode, job, alerts, genOutcome >>

\* the units observable is written; nothing in the constructor listens to it.
\* The lengths keep their values.
setUnits ==
  /\ \E u \in (Units \cup OtherUnits) \ { units } : units' = u
  /\ UNCHANGED outputVars
  /\ UNCHANGED tutorialVars
  /\ UNCHANGED << operations, returnTo00, passDepth, maxCutDepth, topZ,
                  jobTabs, toolDiameter, origin, extraOffsetX, extraOffsetY,
                  svgBB, tpBB >>
  /\ UNCHANGED tabVars
  /\ UNCHANGED camVars
  /\ UNCHANGED << selVars, materialVars >>

setOrigin ==
  /\ \E o \in Origins \ { origin } : origin' = o
  /\ GenerateFrom([ Inputs EXCEPT !.origin = origin' ])
  /\ UNCHANGED << operations, units, returnTo00, passDepth, maxCutDepth, topZ,
                  jobTabs, toolDiameter, extraOffsetX, extraOffsetY,
                  svgBB, tpBB >>
  /\ UNCHANGED tabVars
  /\ UNCHANGED camVars
  /\ UNCHANGED << selVars, materialVars >>

setExtraOffsetX ==
  /\ \E v \in ExtraOffsets \ { extraOffsetX } : extraOffsetX' = v
  /\ GenerateFrom([ Inputs EXCEPT !.extraOffsetX = extraOffsetX' ])
  /\ UNCHANGED << operations, units, returnTo00, passDepth, maxCutDepth, topZ,
                  jobTabs, toolDiameter, origin, extraOffsetY, svgBB, tpBB >>
  /\ UNCHANGED tabVars
  /\ UNCHANGED camVars
  /\ UNCHANGED << selVars, materialVars >>

setExtraOffsetY ==
  /\ \E v \in ExtraOffsets \ { extraOffsetY } : extraOffsetY' = v
  /\ GenerateFrom([ Inputs EXCEPT !.extraOffsetY = extraOffsetY' ])
  /\ UNCHANGED << operations, units, returnTo00, passDepth, maxCutDepth, topZ,
                  jobTabs, toolDiameter, origin, extraOffsetX, svgBB, tpBB >>
  /\ UNCHANGED tabVars
  /\ UNCHANGED camVars
  /\ UNCHANGED << selVars, materialVars >>

\* TabsViewModel.maxCutDepth is written; its subscription dispatches
\* UPDATE_GCODE
setMaxCutDepth ==
  /\ \E v \in TabCutDepths \ { maxCutDepth } : maxCutDepth' = v
  /\ GenerateFrom([ Inputs EXCEPT !.maxCutDepth = maxCutDepth' ])
  /\ UNCHANGED << operations, units, returnTo00, passDepth, topZ,
                  jobTabs, toolDiameter, origin, extraOffsetX, extraOffsetY,
                  svgBB, tpBB >>
  /\ UNCHANGED tabVars
  /\ UNCHANGED camVars
  /\ UNCHANGED << selVars, materialVars >>

\* TabsViewModel.addTab with closed paths in the selection: the new tab is
\* enabled and its combined geometry is that of the selection
addTab ==
  /\ Len(jobTabs) < MaxInputTabs
  /\ jobTabs' = Append(jobTabs, [ enabled |-> TRUE,
                                  combinedGeometry |-> 0..MaxTabX ])
  /\ GenerateFrom([ Inputs EXCEPT !.tabs = jobTabs' ])
  /\ UNCHANGED << operations, units, returnTo00, passDepth, maxCutDepth, topZ,
                  toolDiameter, origin, extraOffsetX, extraOffsetY,
                  svgBB, tpBB >>
  /\ UNCHANGED tabVars
  /\ UNCHANGED camVars
  /\ UNCHANGED << selVars, materialVars >>

\* TabsViewModel.addTab without a closed path in the selection
addTabNothingClosed ==
  /\ alerts' = << Alert("tabsMustBeClosed", 0) >>
  /\ UNCHANGED << gcode, job, genOutcome >>
  /\ UNCHANGED tutorialVars
  /\ UNCHANGED inputVars
  /\ UNCHANGED tabVars
  /\ UNCHANGED camVars
  /\ UNCHANGED << selVars, materialVars >>

RemoveAt(seq, i) == SubSeq(seq, 1, i - 1) \o SubSeq(seq, i + 1, Len(seq))

\* TabsViewModel.removeTab
removeTab ==
  /\ \E i \in DOMAIN jobTabs : jobTabs' = RemoveAt(jobTabs, i)
  /\ GenerateFrom([ Inputs EXCEPT !.tabs = jobTabs' ])
  /\ UNCHANGED << operations, units, returnTo00, passDepth, maxCutDepth, topZ,
                  toolDiameter, origin, extraOffsetX, extraOffsetY,
                  svgBB, tpBB >>
  /\ UNCHANGED tabVars
  /\ UNCHANGED camVars
  /\ UNCHANGED << selVars, materialVars >>


----------------------------------------------------------------------------
(* MaterialViewModel *)

MaxThickness == 10

MaxClearance == 10

\* what the thickness and clearance inputs may be set to
Thicknesses == -1..MaxThickness

Clearances == 0..MaxClearance

ZOrigins == { "Top", "Bottom" }

\* JavaScript values: a number, NaN, or the string made of "-" and the
\* decimal digits of a number
Num(n) == [ kind |-> "number", n |-> n ]

NaN == [ kind |-> "NaN", n |-> 0 ]

\* "-" + n
MinusString(n) == [ kind |-> "string", n |-> n ]

\* parseFloat(v), and the conversion the arithmetic operators apply:
\* "-5" reads as -5, "--5" does not read as a number
parseFloat(v) ==
  IF v.kind = "string"
  THEN IF v.n >= 0 THEN Num(0 - v.n) ELSE NaN
  ELSE v

\* a + b on numbers
Plus(a, b) ==
  IF a.kind = "NaN" \/ b.kind = "NaN" THEN NaN ELSE Num(a.n + b.n)

\* a - b
Minus(a, b) ==
  LET x == parseFloat(a)
      y == parseFloat(b)
  IN  IF x.kind = "NaN" \/ y.kind = "NaN" THEN NaN ELSE Num(x.n - y.n)

\* a > b, where at most one side is a string
Greater(a, b) ==
  LET x == parseFloat(a)
      y == parseFloat(b)
  IN  x.kind /= "NaN" /\ y.kind /= "NaN" /\ x.n > y.n

\* a >= b, where at most one side is a string
GreaterEq(a, b) ==
  LET x == parseFloat(a)
      y == parseFloat(b)
  IN  x.kind /= "NaN" /\ y.kind /= "NaN" /\ x.n >= y.n

ComputedTopZ(zo, th) == IF zo = "Top" THEN Num(0) ELSE Num(th)

ComputedBotZ(zo, th) == IF zo = "Bottom" THEN Num(0) ELSE MinusString(th)

ComputedZSafeMoveTop(zo, th, cl) == parseFloat(Num(cl))

ComputedZSafeMove(zo, th, cl) ==
  IF zo = "Top"
  THEN parseFloat(Num(cl))
  ELSE Plus(parseFloat(Num(th)), parseFloat(Num(cl)))

\* knockout re-evaluates the computeds when an observable they read changes
Recompute(zo, th, cl) ==
  /\ materialTopZ' = ComputedTopZ(zo, th)
  /\ botZ' = ComputedBotZ(zo, th)
  /\ zSafeMove' = ComputedZSafeMove(zo, th, cl)

MaterialOnly ==
  /\ UNCHANGED << selVars, tutorialVars >>
  /\ UNCHANGED gcodeVars
  /\ UNCHANGED tabVars
  /\ UNCHANGED camVars

setThickness ==
  /\ \E th \in Thicknesses :
       /\ thickness' = th
       /\ Recompute(zOrigin, th, clearance)
  /\ UNCHANGED << clearance, zOrigin >>
  /\ MaterialOnly

setClearance ==
  /\ \E cl \in Clearances :
       /\ clearance' = cl
       /\ Recompute(zOrigin, thickness, cl)
  /\ UNCHANGED << thickness, zOrigin >>
  /\ MaterialOnly

setZOrigin ==
  /\ \E zo \in ZOrigins :
       /\ zOrigin' = zo
       /\ Recompute(zo, thickness, clearance)
  /\ UNCHANGED << thickness, clearance >>
  /\ MaterialOnly

----------------------------------------------------------------------------
(* App.tutorial *)

tutorial ==
  /\ \E step \in 1..MaxStep : Tutorial(step)
  /\ UNCHANGED << selVars, materialVars >>
  /\ UNCHANGED gcodeVars
  /\ UNCHANGED tabVars
  /\ UNCHANGED camVars

----------------------------------------------------------------------------
(* SelectionViewModel and the click handlers of #MainSvg                   *)
(*                                                                         *)
(* An element of the content group is named by its index in svgContent, a   *)
(* selectedPath element by the number it was created with.  A click target  *)
(* says which of the two it is; it keeps naming a selectedPath element      *)
(* after that element has been removed from its group.                      *)

ContentTarget(e) == [ selectedPath |-> FALSE, id |-> e ]

CopyTarget(c) == [ selectedPath |-> TRUE, id |-> c ]

Selection(group, num, made, handled) ==
  [ svgGroup |-> group, numSelected |-> num, copiesMade |-> made,
    handled |-> handled ]

\* SelectionViewModel.clickOnSvg(elem) in the selection sel; handled is the
\* value it returns
ClickOnSvg(sel, target) ==
  IF target.selectedPath
  THEN Selection(sel.svgGroup \ { target.id }, sel.numSelected - 1,
                 sel.copiesMade, TRUE)
  ELSE IF svgContent[target.id] = "other"
  THEN [ sel EXCEPT !.handled = FALSE ]
  ELSE Selection(sel.svgGroup \cup { sel.copiesMade + 1 },
                 sel.numSelected + 1, sel.copiesMade + 1, TRUE)

\* SelectionViewModel.clearSelection()
ClearSelection(sel) == Selection({ }, 0, sel.copiesMade, sel.handled)

\* selectedPaths.forEach(element => clickOnSvg(element))
RECURSIVE ClickAll(_, _)
ClickAll(sel, targets) ==
  IF targets = << >> THEN sel
  ELSE ClickAll(ClickOnSvg(sel, Head(targets)), Tail(targets))

RECURSIVE SetToSeq(_)
SetToSeq(set) ==
  IF set = { } THEN << >>
  ELSE LET x == CHOOSE y \in set : \A z \in set : y <= z
       IN  << x >> \o SetToSeq(set \ { x })

\* mainSvg.selectAll('path'): the paths of the content group, then those of
\* the selection group
AllPathsOfMainSvg(group) ==
  LET content == SetToSeq({ e \in DOMAIN svgContent : svgContent[e] /= "rect" })
      copies  == SetToSeq(group)
  IN  [ i \in DOMAIN content |-> ContentTarget(content[i]) ]
      \o [ i \in DOMAIN copies |-> CopyTarget(copies[i]) ]

CurrentSelection == Selection(svgGroup, numSelected, copiesMade, FALSE)

\* the selection is stored; tutorial(3) if told to and something is selected
StoreSelection(sel, tell) ==
  /\ svgGroup' = sel.svgGroup
  /\ numSelected' = sel.numSelected
  /\ copiesMade' = sel.copiesMade
  /\ IF tell /\ sel.numSelected > 0 THEN Tutorial(3)
     ELSE UNCHANGED tutorialVars

\* a click on an element that is displayed: the listener puts the handler
\* into setTimeout(.., 200)
click ==
  /\ Len(clickTimers) < MaxTimers
  /\ \E target \in { ContentTarget(e) : e \in DOMAIN svgContent }
                     \cup { CopyTarget(c) : c \in svgGroup } :
       \E detail \in 1..2 :
         clickTimers' = Append(clickTimers,
                               [ target |-> target, detail |-> detail ])
  /\ UNCHANGED << svgContent, svgGroup, numSelected, copiesMade >>
  /\ UNCHANGED << tutorialVars, materialVars >>
  /\ UNCHANGED gcodeVars
  /\ UNCHANGED tabVars
  /\ UNCHANGED camVars

\* the handler of the oldest click runs
clickTimeout ==
  /\ clickTimers /= << >>
  /\ copiesMade < MaxCopies
  /\ clickTimers' = Tail(clickTimers)
  /\ IF Head(clickTimers).detail > 1
     THEN /\ UNCHANGED << svgGroup, numSelected, copiesMade >>
          /\ UNCHANGED tutorialVars
     ELSE LET sel == ClickOnSvg(CurrentSelection, Head(clickTimers).target)
          IN  StoreSelection(sel, sel.handled)
  /\ UNCHANGED svgContent
  /\ UNCHANGED materialVars
  /\ UNCHANGED gcodeVars
  /\ UNCHANGED tabVars
  /\ UNCHANGED camVars

\* the dblclick listener: select everything
dblclick ==
  /\ copiesMade + Len(svgContent) <= MaxCopies
  /\ LET sel0 == IF numSelected > 0 THEN ClearSelection(CurrentSelection)
                 ELSE CurrentSelection
         selectedPaths == AllPathsOfMainSvg(sel0.svgGroup)
     IN  StoreSelection(ClickAll(sel0, selectedPaths), selectedPaths /= << >>)
  /\ UNCHANGED << svgContent, clickTimers >>
  /\ UNCHANGED materialVars
  /\ UNCHANGED gcodeVars
  /\ UNCHANGED tabVars
  /\ UNCHANGED camVars

\* SelectionViewModel.clearSelection called by another view model
clearSelection ==
  /\ StoreSelection(ClearSelection(CurrentSelection), FALSE)
  /\ UNCHANGED << svgContent, clickTimers >>
  /\ UNCHANGED materialVars
  /\ UNCHANGED gcodeVars
  /\ UNCHANGED tabVars
  /\ UNCHANGED camVars

----------------------------------------------------------------------------
(* separateTabs (Cam)                                                      *)
(*                                                                         *)
(* Tool paths run along the line Y = 0 with vertices at even X.  A tab      *)
(* polygon is the rectangle (x0,-1) (x1,-1) (x1,1) (x0,1) with odd x0 < x1, *)
(* so a segment of the tool path meets the polygon's boundary only on its   *)
(* two vertical edges, never at a vertex of the tool path.                  *)

MaxX == 8

MaxPathLen == 3

MaxTabs == 2

Pt(x) == [ X |-> x, Y |-> 0 ]

Vertices == { Pt(x) : x \in { v \in 0..MaxX : v % 2 = 0 } }

TabEdges == { v \in 0..MaxX : v % 2 = 1 }

TabPolys == { t \in [ x0 : TabEdges, x1 : TabEdges ] : t.x0 < t.x1 }

ToolPaths == UNION { [ 1..n -> Vertices ] : n \in 1..MaxPathLen }

\* the tab polygons are disjoint: the geometry is a union of polygons
Disjoint(g) ==
  \A i \in DOMAIN g : \A j \in DOMAIN g :
    i < j => (g[i].x1 < g[j].x0 \/ g[j].x1 < g[i].x0)

TabGeometries ==
  { g \in UNION { [ 1..n -> TabPolys ] : n \in 0..MaxTabs } : Disjoint(g) }

\* Polygon.contains(Point)
Contains(tab, p) == tab.x0 <= p.X /\ p.X <= tab.x1

Min(a, b) == IF a < b THEN a ELSE b

Max(a, b) == IF a < b THEN b ELSE a

\* the points where Segment(p0, p1) meets the boundary of the polygon
IntersectionXs(p0, p1, tab) ==
  { x \in { tab.x0, tab.x1 } : Min(p0.X, p1.X) <= x /\ x <= Max(p0.X, p1.X) }

Distance(a, b) == IF a < b THEN b - a ELSE a - b

\* seg.intersect(tabPoly), sorted by ascending distance from p0
RECURSIVE SortByDistance(_, _)
SortByDistance(xs, p0) ==
  IF xs = { } THEN << >>
  ELSE LET near == CHOOSE x \in xs :
                     \A y \in xs : Distance(x, p0.X) <= Distance(y, p0.X)
       IN  << Pt(near) >> \o SortByDistance(xs \ { near }, p0)

Intersections(p0, p1, tab) == SortByDistance(IntersectionXs(p0, p1, tab), p0)

\* each intersection closes the current path and starts a new one
RECURSIVE SplitAt(_, _)
SplitAt(acc, inters) ==
  IF inters = << >> THEN acc
  ELSE SplitAt([ paths    |-> Append(acc.paths, Append(acc.currPath, Head(inters))),
                 currPath |-> << Head(inters) >> ],
               Tail(inters))

\* the body of `for (const tabPoly of tabPolys)' for one polygon
PushPoint(acc, ip1) == [ acc EXCEPT !.currPath = Append(acc.currPath, ip1) ]

PerTabPoly(acc, p0, ip1, tab) ==
  PushPoint(SplitAt(acc, Intersections(p0, ip1, tab)), ip1)

RECURSIVE OverTabPolys(_, _, _, _, _)
OverTabPolys(acc, p0, ip1, tabs, k) ==
  IF k > Len(tabs) THEN acc
  ELSE OverTabPolys(PerTabPoly(acc, p0, ip1, tabs[k]), p0, ip1, tabs, k + 1)

\* the loop `for (const ip1 of toolPath)'
RECURSIVE Walk(_, _, _, _, _)
Walk(acc, ip0, path, tabs, i) ==
  IF i > Len(path) THEN acc
  ELSE IF path[i] /= ip0
       THEN Walk(OverTabPolys(acc, ip0, path[i], tabs, 1), path[i], path, tabs, i + 1)
       ELSE Walk(acc, ip0, path, tabs, i + 1)

\* the vertex the walk starts from
StartPoint(path) == path[Len(path)]

\* `paths' is declared with const after the loop that prepends to it:
\* the unshift is evaluated in the temporal dead zone and throws
Threw == [ state |-> "threw", paths |-> << >> ]

Returned(ps) == [ state |-> "returned", paths |-> ps ]

separateTabsResult(path, tabs) ==
  IF \E k \in DOMAIN tabs : Contains(tabs[k], StartPoint(path))
  THEN Threw
  ELSE LET acc == Walk([ paths |-> << >>, currPath |-> << StartPoint(path) >> ],
                       StartPoint(path), path, tabs, 1)
       IN  Returned(IF Len(acc.currPath) > 1
                    THEN Append(acc.paths, acc.currPath)
                    ELSE acc.paths)

separateTabs ==
  /\ separated.state = "idle"
  /\ separated' = separateTabsResult(toolPath, tabGeometry)
  /\ UNCHANGED << toolPath, tabGeometry >>
  /\ UNCHANGED gcodeVars
  /\ UNCHANGED uiVars
  /\ UNCHANGED camVars

----------------------------------------------------------------------------
(* Cam: pocket, outline, engrave                                           *)
(*                                                                         *)
(* pocket and outline are given the square with corners (0,0) and          *)
(* (side,side).  The square moved inward by d (outward for d < 0) is the    *)
(* path Square(d).  Lengths are integers; overlap is given in percent.      *)

MaxSide == 10

MaxWidth == 6

MaxEngravePaths == 2

MaxEngraveLen == 3

CutterDias == { 2, 4 }

Overlaps == { 0, 50 }

P2(x, y) == [ X |-> x, Y |-> y ]

RECURSIVE Reverse(_)
Reverse(path) ==
  IF path = << >> THEN << >> ELSE Append(Reverse(Tail(path)), Head(path))

ReverseAll(paths) == [ i \in DOMAIN paths |-> Reverse(paths[i]) ]

Square(side, d) ==
  << P2(d, d), P2(side - d, d), P2(side - d, side - d), P2(d, side - d) >>

\* how far inside the input square the path runs
InsetOf(path) == CHOOSE d \in { path[i].X : i \in DOMAIN path } :
                   \A i \in DOMAIN path : d <= path[i].X

\* InternalPaths.offset: every contour moved by delta, outward for
\* delta > 0; a contour that collapses is dropped
RECURSIVE Offset(_, _, _)
Offset(paths, delta, side) ==
  IF paths = << >> THEN << >>
  ELSE LET d == InsetOf(Head(paths)) - delta
       IN  (IF 2 * d < side THEN << Square(side, d) >> ELSE << >>)
           \o Offset(Tail(paths), delta, side)

\* InternalPaths.diff(a, b), kept as the pair of its operands
Diff(a, b) == [ null |-> FALSE, a |-> a, b |-> b ]

NullClip == [ null |-> TRUE, a |-> << >>, b |-> << >> ]

WithinBox(path, p) ==
  /\ \E i \in DOMAIN path : path[i].X <= p.X
  /\ \E i \in DOMAIN path : p.X <= path[i].X
  /\ \E i \in DOMAIN path : path[i].Y <= p.Y
  /\ \E i \in DOMAIN path : p.Y <= path[i].Y

StrictlyWithinBox(path, p) ==
  /\ \E i \in DOMAIN path : path[i].X < p.X
  /\ \E i \in DOMAIN path : p.X < path[i].X
  /\ \E i \in DOMAIN path : path[i].Y < p.Y
  /\ \E i \in DOMAIN path : p.Y < path[i].Y

InClip(clip, p) ==
  /\ \E i \in DOMAIN clip.a : WithinBox(clip.a[i], p)
  /\ \A i \in DOMAIN clip.b : ~StrictlyWithinBox(clip.b[i], p)

\* InternalPaths.crosses: without a clip polygon every segment crosses
Crosses(clip, p, q) ==
  IF clip.null THEN TRUE ELSE ~(InClip(clip, p) /\ InClip(clip, q))

Last(path) == path[Len(path)]

\* InternalPaths.mergePaths: a path is appended to the one before it when
\* it starts at that path's open end and the join does not cross the clip
RECURSIVE MergeFrom(_, _, _)
MergeFrom(clip, cur, rest) ==
  IF rest = << >> THEN << cur >>
  ELSE IF Head(rest)[1] = Last(cur) /\ ~Crosses(clip, Last(cur), Head(rest)[1])
       THEN MergeFrom(clip, cur \o Head(rest), Tail(rest))
       ELSE << cur >> \o MergeFrom(clip, Head(rest), Tail(rest))

InternalMergePaths(clip, paths) ==
  IF paths = << >> THEN << >> ELSE MergeFrom(clip, Head(paths), Tail(paths))

CamPath(clip, path) ==
  [ path |-> path, safeToClose |-> ~Crosses(clip, path[1], Last(path)) ]

\* Cam.mergePaths
mergePaths(clip, paths) ==
  LET merged == InternalMergePaths(clip, paths)
  IN  [ i \in DOMAIN merged |-> CamPath(clip, merged[i]) ]

EachWidth(cutterDia, overlap) == (cutterDia * (100 - overlap)) \div 100

AppendPass(cur, all) == all \o cur

\* allPaths = current.concat(allPaths)
PrependPass(cur, all) == cur \o all

(* pocket *)

\* the arguments of a call; geometry is the geometry as it is passed in
Args(op, side, cutterDia, overlap, climb, isInside, width, geom) ==
  [ op |-> op, side |-> side, cutterDia |-> cutterDia, overlap |-> overlap,
    climb |-> climb, isInside |-> isInside, width |-> width, geometry |-> geom ]

PocketArgs ==
  { Args("pocket", s, c, o, k, TRUE, 0, << Square(s, 0) >>) :
      s \in 1..MaxSide, c \in CutterDias, o \in Overlaps, k \in BOOLEAN }

pocketStart ==
  /\ camPc = "start"
  /\ camArgs.op = "pocket"
  /\ current' = Offset(geometry, -(camArgs.cutterDia \div 2), camArgs.side)
  /\ clipPoly' = Diff(current', << >>)
  /\ allPaths' = << >>
  /\ camPc' = "pocketLoop"
  /\ UNCHANGED << camArgs, geometry, currentWidth, camResult >>
  /\ UNCHANGED gcodeVars
  /\ UNCHANGED uiVars
  /\ UNCHANGED tabVars

PocketLoopRunsAlways(cur) == TRUE

\* current.length != 0
PocketLoopRuns(cur) == Len(cur) /= 0

\* one iteration of the while loop; the paths of the first `current' are
\* shared with clipPoly, so reversing them reverses clipPoly's too
pocketLoop ==
  /\ camPc = "pocketLoop"
  /\ PocketLoopRuns(current)
  /\ LET cur == IF camArgs.climb THEN ReverseAll(current) ELSE current
     IN  /\ allPaths' = PrependPass(cur, allPaths)
         /\ clipPoly' = IF allPaths = << >> THEN Diff(cur, << >>) ELSE clipPoly
         /\ current' = Offset(cur, -EachWidth(camArgs.cutterDia, camArgs.overlap),
                              camArgs.side)
  /\ UNCHANGED << camArgs, geometry, camPc, currentWidth, camResult >>
  /\ UNCHANGED gcodeVars
  /\ UNCHANGED uiVars
  /\ UNCHANGED tabVars

pocketReturn ==
  /\ camPc = "pocketLoop"
  /\ ~PocketLoopRuns(current)
  /\ camResult' = mergePaths(clipPoly, allPaths)
  /\ camPc' = "done"
  /\ UNCHANGED << camArgs, geometry, current, allPaths, currentWidth, clipPoly >>
  /\ UNCHANGED gcodeVars
  /\ UNCHANGED uiVars
  /\ UNCHANGED tabVars

(* outline *)

OutlineArgs ==
  { Args("outline", s, c, o, k[1], k[2], w, << Square(s, 0) >>) :
      s \in 1..MaxSide, c \in CutterDias, o \in Overlaps,
      k \in BOOLEAN \X BOOLEAN, w \in 1..MaxWidth }

NeedReverseAsClimb(isInside, climb) == climb

NeedReverse(isInside, climb) == IF isInside THEN climb ELSE ~climb

EachOffset(isInside, eachWidth) == IF isInside THEN -eachWidth ELSE eachWidth

Reversed(needReverse, paths) == IF needReverse THEN ReverseAll(paths) ELSE paths

outlineStart ==
  /\ camPc = "start"
  /\ camArgs.op = "outline"
  /\ currentWidth' = camArgs.cutterDia
  /\ allPaths' = << >>
  /\ IF camArgs.isInside
     THEN /\ current' = Offset(geometry, -(camArgs.cutterDia \div 2), camArgs.side)
          /\ clipPoly' = Diff(current',
                              Offset(geometry,
                                     -(camArgs.width - camArgs.cutterDia \div 2),
                                     camArgs.side))
     ELSE /\ current' = Offset(geometry, camArgs.cutterDia \div 2, camArgs.side)
          /\ clipPoly' = Diff(Offset(geometry,
                                     camArgs.width - camArgs.cutterDia \div 2,
                                     camArgs.side),
                              current')
  /\ camPc' = "outlineLoop"
  /\ UNCHANGED << camArgs, geometry, camResult >>
  /\ UNCHANGED gcodeVars
  /\ UNCHANGED uiVars
  /\ UNCHANGED tabVars

\* currentWidth <= width
OutlineLoopRuns(cw, width) == cw <= width

\* one iteration of the while loop, the final correcting pass included
outlineLoop ==
  /\ camPc = "outlineLoop"
  /\ OutlineLoopRuns(currentWidth, camArgs.width)
  /\ LET eachWidth   == EachWidth(camArgs.cutterDia, camArgs.overlap)
         needReverse == NeedReverse(camArgs.isInside, camArgs.climb)
         cur         == Reversed(needReverse, current)
         nextWidth   == currentWidth + eachWidth
     IN  IF nextWidth > camArgs.width /\ camArgs.width - currentWidth > 0
         THEN /\ current' = Reversed(needReverse,
                                     Offset(cur, camArgs.width - currentWidth,
                                            camArgs.side))
              /\ allPaths' = PrependPass(current', PrependPass(cur, allPaths))
              /\ camPc' = "outlineBreak"
              /\ UNCHANGED currentWidth
         ELSE /\ allPaths' = PrependPass(cur, allPaths)
              /\ currentWidth' = nextWidth
              /\ current' = Offset(cur, EachOffset(camArgs.isInside, eachWidth),
                                   camArgs.side)
              /\ UNCHANGED camPc
  /\ UNCHANGED << camArgs, geometry, clipPoly, camResult >>
  /\ UNCHANGED gcodeVars
  /\ UNCHANGED uiVars
  /\ UNCHANGED tabVars

outlineReturn ==
  /\ \/ camPc = "outlineBreak"
     \/ camPc = "outlineLoop" /\ ~OutlineLoopRuns(currentWidth, camArgs.width)
  /\ camResult' = mergePaths(clipPoly, allPaths)
  /\ camPc' = "done"
  /\ UNCHANGED << camArgs, geometry, current, allPaths, currentWidth, clipPoly >>
  /\ UNCHANGED gcodeVars
  /\ UNCHANGED uiVars
  /\ UNCHANGED tabVars

(* engrave *)

EngravePoints == { P2(0, 0), P2(1, 0), P2(1, 1), P2(0, 1) }

\* a path does not visit a point twice
EngravePaths ==
  { p \in UNION { [ 1..n -> EngravePoints ] : n \in 1..MaxEngraveLen } :
      \A i \in DOMAIN p : \A j \in DOMAIN p : i /= j => p[i] /= p[j] }

EngraveGeometries == UNION { [ 1..n -> EngravePaths ] : n \in 0..MaxEngravePaths }

EngraveArgs ==
  { Args("engrave", 1, 2, 0, k, TRUE, 0, g) :
      k \in BOOLEAN, g \in EngraveGeometries }

\* the path reversed and closed in place, without taking a copy
EngravePassInPlace(path, climb) ==
  LET copy == IF ~climb THEN Reverse(path) ELSE path
  IN  [ pass |-> Append(copy, copy[1]), input |-> Append(copy, copy[1]) ]

EngravePassOpen(path, climb) ==
  [ pass |-> IF ~climb THEN Reverse(path) ELSE path, input |-> path ]

\* the body of the for loop: the pass made from one path of the geometry,
\* and that path as the loop leaves it
EngravePass(path, climb) ==
  LET copy == IF ~climb THEN Reverse(path) ELSE path
  IN  [ pass |-> Append(copy, copy[1]), input |-> path ]

\* path.safeToClose = true
MarkSafeToClose(camPath) == [ camPath EXCEPT !.safeToClose = TRUE ]

engrave ==
  /\ camPc = "start"
  /\ camArgs.op = "engrave"
  /\ allPaths' = [ i \in DOMAIN geometry |-> EngravePass(geometry[i], camArgs.climb).pass ]
  /\ geometry' = [ i \in DOMAIN geometry |-> EngravePass(geometry[i], camArgs.climb).input ]
  /\ clipPoly' = NullClip
  /\ LET result == mergePaths(NullClip, allPaths')
     IN  camResult' = [ i \in DOMAIN result |-> MarkSafeToClose(result[i]) ]
  /\ camPc' = "done"
  /\ UNCHANGED << camArgs, current, currentWidth >>
  /\ UNCHANGED gcodeVars
  /\ UNCHANGED uiVars
  /\ UNCHANGED tabVars

----------------------------------------------------------------------------
(* Properties of generateGcode *)

Generated == genOutcome = "generated"

CountAlerts(id) == Cardinality({ k \in DOMAIN alerts : alerts[k].id = id })

LinesAt(line) == { k \in DOMAIN gcode : gcode[k] = line }

\* C1: every program generateGcode produces ends with the M2 line, whether
\* returnTo00 is set or not.
C1_EndsWithM2 ==
  (Generated \/ gcode /= << >>) =>
    /\ gcode /= << >>
    /\ gcode[Len(gcode)] = EndLine

C1_Witness ==
  /\ Generated
  /\ ~returnTo00
  /\ gcode[Len(gcode)] = EndLine
  /\ LinesAt(ReturnLine) = { }

\* C2: the line G0 X0 Y0 F<rapidFeed> is in the program if and only if
\* returnTo00 is set; it is then the line right before the final M2 and
\* appears nowhere else.
C2_ReturnLineBeforeM2 ==
  Generated =>
    /\ LinesAt(ReturnLine) = IF returnTo00 THEN { Len(gcode) - 1 } ELSE { }
    /\ LinesAt(EndLine) = { Len(gcode) }

C2_Witness ==
  /\ Generated
  /\ returnTo00
  /\ Len(job.ops) = 2
  /\ gcode[Len(gcode) - 1] = ReturnLine

C4_PassDepthClamped ==
  Generated =>
    /\ Len(job.ops) = Len(EnabledOps(operations))
    /\ passDepth < 0 =>
         /\ job.passDepth = 0
         /\ CountAlerts("passDepthTooSmall") = 1
         /\ \E k \in DOMAIN alerts : alerts[k] = Alert("passDepthTooSmall", passDepth)
    /\ passDepth >= 0 =>
         /\ job.passDepth = passDepth
         /\ CountAlerts("passDepthTooSmall") = 0

C4_Witness ==
  /\ Generated
  /\ passDepth < 0
  /\ job.passDepth = 0
  /\ Len(job.ops) = 2
  /\ CountAlerts("passDepthTooSmall") = 1

\* C5: each operation with a negative cutDepth gets cutDepth 0 and one
\* cutDepthTooSmall warning, and it and every later operation is emitted;
\* a cutDepth >= 0 is passed through unchanged without a warning.
C5_CutDepthClamped ==
  Generated =>
    LET ops == EnabledOps(operations)
    IN  /\ Len(job.ops) = Len(ops)
        /\ \A k \in DOMAIN ops :
             LET cd == operations[ops[k]].cutDepth
                 shown == IF cd < 0 THEN 0 ELSE cd
             IN  /\ job.ops[k].name = ops[k]
                 /\ job.ops[k].cutDepth = shown
                 /\ LinesAt(Line("; ** Operation **", ops[k])) /= { }
                 /\ \E n \in LinesAt(Line("; Name:", ops[k])) :
                      gcode[n + 4] = Line("; Cut Depth:", shown)
        /\ CountAlerts("cutDepthTooSmall") =
             Cardinality({ k \in DOMAIN ops : operations[ops[k]].cutDepth < 0 })

C5_Witness ==
  /\ Generated
  /\ Len(job.ops) = 2
  /\ operations[1].cutDepth < 0
  /\ operations[2].cutDepth > 0
  /\ job.ops[1].cutDepth = 0
  /\ job.ops[2].cutDepth = operations[2].cutDepth
  /\ CountAlerts("cutDepthTooSmall") = 1

\* C6: every operation card handed to the emitter has passDepth >= 0 and
\* cutDepth >= 0, for every operation kind and every entered depth.
C6_CardDepthsNonNegative ==
  \A k \in DOMAIN job.ops :
    job.ops[k].passDepth >= 0 /\ job.ops[k].cutDepth >= 0

\* C7: every job handed to the emitter has tabZ <= topZ.
C7_TabZNotAboveTopZ ==
  Generated => job.tabZ <= job.topZ

\* the cells within half the cutter diameter of an enabled tab
EnabledTabCells ==
  { x \in (0 - toolDiameter)..(MaxTabX + toolDiameter) :
      \E k \in DOMAIN jobTabs :
        /\ jobTabs[k].enabled
        /\ \E p \in jobTabs[k].combinedGeometry :
             2 * (x - p) <= toolDiameter /\ 2 * (p - x) <= toolDiameter }

\* C19: the tab geometry of the job is the union, over exactly the enabled
\* tabs, of each tab's combined geometry grown by half the cutter diameter,
\* and the job already holds it when each operation is added.
C19_TabGeometryOfEnabledTabs ==
  Generated =>
    /\ job.tabGeometry = EnabledTabCells
    /\ Len(job.emitted) = Len(job.ops)
    /\ \A k \in DOMAIN job.emitted :
         /\ job.emitted[k].name = job.ops[k].name
         /\ job.emitted[k].tabGeometry = EnabledTabCells

C19_Witness ==
  /\ Generated
  /\ Len(job.emitted) = 2
  /\ Len(jobTabs) = 2
  /\ jobTabs[1].enabled
  /\ ~jobTabs[2].enabled
  /\ jobTabs[1].combinedGeometry /= { }
  /\ ~(jobTabs[2].combinedGeometry \subseteq job.tabGeometry)
  /\ job.emitted[1].tabGeometry = job.tabGeometry
  /\ Cardinality(job.tabGeometry) > Cardinality(jobTabs[1].combinedGeometry)

\* C20: the card of a Perforate or Drill operation has precalculatedZ set
\* and the operation's cutDepth as passDepth; the card of any other
\* operation has precalculatedZ clear and the job's passDepth.
C20_PrecalculatedCards ==
  Generated =>
    LET ops == EnabledOps(operations)
    IN  /\ Len(job.ops) = Len(ops)
        /\ \A k \in DOMAIN ops :
             LET op == operations[ops[k]]
             IN  IF op.operation \in { "Perforate", "Drill" }
                 THEN /\ job.ops[k].precalculatedZ
                      /\ job.ops[k].passDepth = op.cutDepth
                 ELSE /\ ~job.ops[k].precalculatedZ
                      /\ job.ops[k].passDepth = job.passDepth

C20_Witness ==
  /\ Generated
  /\ Len(job.ops) = 2
  /\ job.ops[1].cutType = "Drill"
  /\ job.ops[1].precalculatedZ
  /\ job.ops[1].passDepth = 1
  /\ job.ops[2].cutType = "Pocket"
  /\ ~job.ops[2].precalculatedZ
  /\ job.ops[2].passDepth = 0
  /\ job.passDepth = 0

----------------------------------------------------------------------------
(* Properties of separateTabs *)

Returns == separated.state = "returned"

\* the segment from a to b stays clear of the inside of every tab polygon
SegmentOutside(a, b) ==
  \A k \in DOMAIN tabGeometry :
    LET tab == tabGeometry[k]
    IN  IF a.X = b.X
        THEN ~(tab.x0 < a.X /\ a.X < tab.x1)
        ELSE ~(Min(a.X, b.X) < tab.x1 /\ tab.x0 < Max(a.X, b.X))

\* the segment from a to b lies within one tab polygon
SegmentInside(a, b) ==
  \E k \in DOMAIN tabGeometry :
    /\ tabGeometry[k].x0 <= Min(a.X, b.X)
    /\ Max(a.X, b.X) <= tabGeometry[k].x1

PathOutside(sub) == \A n \in 1..(Len(sub) - 1) : SegmentOutside(sub[n], sub[n + 1])

PathInside(sub) == \A n \in 1..(Len(sub) - 1) : SegmentInside(sub[n], sub[n + 1])

\* C8: in the list separateTabs returns, the sub-paths at indices 0, 2, 4, ...
\* lie outside all tab polygons and those at indices 1, 3, 5, ... lie inside
\* a tab polygon.
C8_ParityOutsideInside ==
  Returns =>
    \A i \in DOMAIN separated.paths :
      IF i % 2 = 1
      THEN PathOutside(separated.paths[i])
      ELSE PathInside(separated.paths[i])

RECURSIVE Flatten(_)
Flatten(ps) == IF ps = << >> THEN << >> ELSE Head(ps) \o Flatten(Tail(ps))

\* drop the first point of every sub-path but the first: the joining endpoint
RECURSIVE Joined(_)
Joined(ps) ==
  IF ps = << >> THEN << >>
  ELSE IF Len(ps) = 1 THEN Head(ps)
  ELSE Head(ps) \o Tail(Joined(Tail(ps)))

IsVertex(p) == p.X % 2 = 0

OnlyVertices(seq) == SelectSeq(seq, IsVertex)

\* C9: the sub-paths, concatenated in order, give back the tool path vertex
\* for vertex, with only intersection points added, and consecutive
\* sub-paths share their joining endpoint.
C9_ConcatenationReconstructs ==
  Returns =>
    /\ \A i \in 1..(Len(separated.paths) - 1) :
         separated.paths[i][Len(separated.paths[i])] = separated.paths[i + 1][1]
    /\ OnlyVertices(Joined(separated.paths)) = toolPath

StartsInsideTab ==
  \E k \in DOMAIN tabGeometry :
    tabGeometry[k].x0 < toolPath[1].X /\ toolPath[1].X < tabGeometry[k].x1

\* C10: when the first vertex of the tool path lies inside a tab polygon,
\* separateTabs returns normally and the first sub-path is the zero-length
\* path [p, p] at that vertex.
C10_ZeroLengthPrepended ==
  (separated.state /= "idle" /\ StartsInsideTab) =>
    /\ Returns
    /\ separated.paths /= << >>
    /\ separated.paths[1] = << toolPath[1], toolPath[1] >>

IsIntersection(p) == p.X % 2 = 1

\* the points at which the returned list is split, in output order
SplitPoints(ps) == SelectSeq(Joined(ps), IsIntersection)

\* every intersection of the segment from p0 to p1 with any tab polygon,
\* nearest to p0 first
AllIntersections(p0, p1) ==
  SortByDistance(UNION { IntersectionXs(p0, p1, tabGeometry[k]) : k \in DOMAIN tabGeometry },
                 p0)

\* the segments in the order separateTabs walks them
RECURSIVE SplitsInOrder(_, _)
SplitsInOrder(ip0, i) ==
  IF i > Len(toolPath) THEN << >>
  ELSE IF toolPath[i] /= ip0
       THEN AllIntersections(ip0, toolPath[i]) \o SplitsInOrder(toolPath[i], i + 1)
       ELSE SplitsInOrder(ip0, i + 1)

\* C11: every intersection of a segment with the tab geometry gives one
\* split, and the splits of a segment come out in order of increasing
\* distance from the segment's start, over all tab polygons together.
C11_SplitsInDistanceOrder ==
  Returns =>
    SplitPoints(separated.paths) = SplitsInOrder(toolPath[Len(toolPath)], 1)

----------------------------------------------------------------------------
(* Properties of pocket, outline and engrave *)

CamDone(op) == camPc = "done" /\ camArgs.op = op

SameVertices(p, q) == { p[i] : i \in DOMAIN p } = { q[i] : i \in DOMAIN q }

C13_CompilersTerminate == <>(camPc = "done")

C13_Witness ==
  /\ camPc = "done"
  /\ camArgs.op = "pocket"
  /\ camArgs.overlap = 50
  /\ Len(allPaths) >= 3
  /\ current = << >>

PassAsOffset(path) == Square(camArgs.side, InsetOf(path))

\* C14: every pass outline emits, the final correcting pass included, is
\* the offset result reversed once when needReverse holds and the offset
\* result itself otherwise; needReverse is climb for an inside cut and
\* not climb for an outside cut.
C14_OutlineReversedOnce ==
  CamDone("outline") =>
    LET needReverse == (camArgs.isInside /\ camArgs.climb)
                         \/ (~camArgs.isInside /\ ~camArgs.climb)
    IN  /\ \A i \in DOMAIN allPaths :
             allPaths[i] = IF needReverse THEN Reverse(PassAsOffset(allPaths[i]))
                           ELSE PassAsOffset(allPaths[i])
        /\ \A i \in DOMAIN camResult : \E j \in DOMAIN allPaths :
             camResult[i].path = allPaths[j]

C14_Witness ==
  /\ CamDone("outline")
  /\ ~camArgs.isInside
  /\ ~camArgs.climb
  /\ camArgs.width - currentWidth > 0
  /\ Len(camResult) = 3
  /\ camResult[1].path = Reverse(PassAsOffset(camResult[1].path))

\* how far from the geometry the cutter, of radius cutterDia/2 and centred
\* on the pass, reaches on the side being cut
CutReach(path) ==
  (IF camArgs.isInside THEN InsetOf(path) ELSE -InsetOf(path))
    + camArgs.cutterDia \div 2

\* C15: outline emits regular passes at cut widths cutterDia, cutterDia +
\* eachWidth, ... while these do not exceed width, then one correcting pass
\* if and only if width is not reached yet, so that the cut is exactly
\* width wide; width = cutterDia gives one pass, width < cutterDia none.
C15_OutlineCutsWidth ==
  (CamDone("outline") /\ 2 * camArgs.width < camArgs.side) =>
    LET cd      == camArgs.cutterDia
        step    == (cd * (100 - camArgs.overlap)) \div 100
        regular == Cardinality({ k \in 0..camArgs.width : cd + k * step <= camArgs.width })
        rest    == camArgs.width - (cd + (regular - 1) * step)
    IN  IF camArgs.width < cd
        THEN allPaths = << >>
        ELSE /\ Len(allPaths) = regular + (IF rest > 0 THEN 1 ELSE 0)
             /\ \A k \in 0..(regular - 1) : \E i \in DOMAIN allPaths :
                  CutReach(allPaths[i]) = cd + k * step
             /\ \A i \in DOMAIN allPaths : CutReach(allPaths[i]) <= camArgs.width
             /\ \E i \in DOMAIN allPaths : CutReach(allPaths[i]) = camArgs.width

\* the path without its last vertex
Front(path) == SubSeq(path, 1, Len(path) - 1)

\* C16: engrave returns one pass per path of the geometry; a pass holds the
\* vertices of its path and then a duplicate of its own first vertex, is
\* marked safeToClose, and the geometry passed in is left as it was.
C16_EngravePasses ==
  CamDone("engrave") =>
    /\ Len(camResult) = Len(camArgs.geometry)
    /\ \A i \in DOMAIN camResult :
         LET pass == camResult[i].path
             src  == camArgs.geometry[i]
         IN  /\ Len(pass) = Len(src) + 1
             /\ Front(pass) \in { src, Reverse(src) }
             /\ pass[Len(pass)] = pass[1]
             /\ camResult[i].safeToClose
    /\ geometry = camArgs.geometry

C16_Witness ==
  /\ CamDone("engrave")
  /\ Len(camResult) = 2
  /\ Len(camResult[1].path) = 4
  /\ Len(camResult[2].path) = 3
  /\ camResult[1].path[1] = camResult[2].path[1]
  /\ geometry = camArgs.geometry

\* C17: engrave with climb = true reverses the vertex order of each path
\* and with climb = false keeps it.
C17_EngraveClimbReverses ==
  CamDone("engrave") =>
    \A i \in DOMAIN camResult :
      Front(camResult[i].path) = IF camArgs.climb THEN Reverse(camArgs.geometry[i])
                                 ELSE camArgs.geometry[i]

ConsecutiveDiffer(path) == \A i \in 1..(Len(path) - 1) : path[i] /= path[i + 1]

\* C18 as stated: in every CamPath returned by pocket, outline or engrave
\* consecutive vertices differ and the first vertex is not the last.
C18_NoDuplicateVertex ==
  camPc = "done" =>
    \A i \in DOMAIN camResult :
      /\ ConsecutiveDiffer(camResult[i].path)
      /\ camResult[i].path[1] /= Last(camResult[i].path)

\* C18 amended: in every CamPath returned by pocket or outline consecutive
\* vertices differ and the first vertex is not the last; a CamPath returned
\* by engrave ends with a duplicate of its first vertex, and the vertices
\* before that duplicate differ from their neighbours.
C18_DuplicateOnlyInEngrave ==
  camPc = "done" =>
    \A i \in DOMAIN camResult :
      IF camArgs.op = "engrave"
      THEN /\ Len(camResult[i].path) >= 2
           /\ Last(camResult[i].path) = camResult[i].path[1]
           /\ ConsecutiveDiffer(Front(camResult[i].path))
      ELSE /\ ConsecutiveDiffer(camResult[i].path)
           /\ camResult[i].path[1] /= Last(camResult[i].path)

C18_Witness ==
  /\ CamDone("engrave")
  /\ Len(camResult) = 1
  /\ Len(camResult[1].path) = 4
  /\ Last(camResult[1].path) = camResult[1].path[1]

G20 == Line("G20 ; Set units to inches", 0)

G21 == Line("G21 ; Set units to mm", 0)

\* the program g starts as a program for the units u does
HasPreamble(g, u) ==
  /\ Len(g) >= 5
  /\ u \in { "inch", "mm" }
  /\ g[3] = IF u = "inch" THEN G20 ELSE G21
  /\ { k \in DOMAIN g : g[k] \in { G20, G21 } } = { 3 }
  /\ g[4] = Line("G90 ; Absolute positioning", 0)
  /\ g[5] = Line("G0 Z<safeZ> F<rapidRate> ; Move to clearance level", 0)
  /\ \A k \in DOMAIN g : g[k].text = "; ** Operation **" => k > 5

\* a step in which generateGcode is called
GenerateCalled ==
  \/ generateGcode \/ setReturnTo00 \/ setOrigin \/ setExtraOffsetX
  \/ setExtraOffsetY \/ setMaxCutDepth \/ addTab \/ removeTab

C21_Step ==
  /\ units' \notin { "inch", "mm" } => gcode' = gcode
  /\ (GenerateCalled /\ units' \notin { "inch", "mm" }
        /\ EnabledOps(operations') /= << >>) => genOutcome' = "threw"
  /\ (GenerateCalled /\ genOutcome' = "generated") =>
       HasPreamble(gcode', units')
  /\ gcode' /= << >> => \E u \in { "inch", "mm" } : HasPreamble(gcode', u)

\* C21: a generated program has, before the lines of any operation, one
\* units directive (G20 for inch, G21 for mm), then G90, then the rapid move
\* to safeZ; with any other units the call throws and the stored program
\* stays as it was.
C21_PreambleOrThrow == [][C21_Step]_vars

C21_Witness ==
  /\ genOutcome = "threw"
  /\ units = "px"
  /\ HasPreamble(gcode, "mm")

\* C24: after a change of any input of the generation (units, origin, extra
\* offsets, returnTo00, maxCutDepth, a tab added or removed) generateGcode
\* has run, so the stored program and job are those of the current inputs.
C24_ProgramIsCurrent ==
  gcode /= << >> => (gcode = ProgramOf(Inputs) /\ job = JobOf(Inputs))

\* the operations that are to be emitted
Wanted == { i \in DOMAIN operations :
              operations[i].enabled /\ operations[i].toolPaths > 0 }

Increasing(seq) == \A i \in DOMAIN seq : \A j \in DOMAIN seq :
                     i < j => seq[i] < seq[j]

\* the lines of the program that start an operation
HeaderLines == { k \in DOMAIN gcode : gcode[k].text = "; ** Operation **" }

\* C26: the operations emitted are the enabled operations with a tool path,
\* in the order of the list; any other operation puts no line into the
\* program and raises no warning.
C26_EmittedOperations ==
  /\ Generated =>
       /\ { job.ops[k].name : k \in DOMAIN job.ops } = Wanted
       /\ Increasing([ k \in DOMAIN job.ops |-> job.ops[k].name ])
       /\ { gcode[k].arg : k \in HeaderLines } = Wanted
       /\ \A k \in HeaderLines : \A l \in HeaderLines :
            k < l => gcode[k].arg < gcode[l].arg
       /\ \A k \in DOMAIN gcode :
            gcode[k].text \in { "; Name:", "Gcode.generate" } =>
              gcode[k].arg \in Wanted
       /\ CountAlerts("cutDepthTooSmall") =
            Cardinality({ i \in Wanted : operations[i].cutDepth < 0 })
  /\ genOutcome = "noOps" => (Wanted = { } /\ alerts = << >> /\ gcode = << >>)

C26_Witness ==
  /\ Generated
  /\ Len(operations) = 2
  /\ operations[1].enabled
  /\ operations[1].toolPaths = 0
  /\ operations[1].cutDepth < 0
  /\ operations[2].enabled
  /\ operations[2].toolPaths > 0
  /\ Len(job.ops) = 1
  /\ job.ops[1].name = 2
  /\ CountAlerts("cutDepthTooSmall") = 0

\* ceil(a / b) for b /= 0
CeilDiv(a, b) ==
  IF b > 0 THEN (a + b - 1) \div b ELSE ((0 - a) + (0 - b) - 1) \div (0 - b)

\* the number of passes the emitter makes, ceil(cutDepth / passDepth); the
\* quotient is infinite, or not a number, for a passDepth of 0
PassCount(cutDepth, pd) ==
  IF pd = 0 THEN [ finite |-> FALSE, passes |-> 0 ]
  ELSE [ finite |-> TRUE, passes |-> CeilDiv(cutDepth, pd) ]

\* C27: for every operation card handed to the emitter the pass count
\* ceil(cutDepth / passDepth) is a finite number, so that the layering of
\* the passes ends; also when a negative passDepth has been clamped to 0.
C27_PassCountFinite ==
  \A k \in DOMAIN job.ops :
    PassCount(job.ops[k].cutDepth, job.ops[k].passDepth).finite

\* xScale and yScale of the job, for units in which one integer unit is one
\* G-code unit
XScale == 1

YScale == 0 - XScale

\* a point of a path as the emitter writes it
GcodeX(x) == x * XScale + job.offsetX

GcodeY(y) == y * YScale + job.offsetY

\* C25: without extra offsets, origin "Bounding box" puts the lower left
\* corner of the tool path bounding box at G-code (0, 0) and origin "Centre"
\* puts its centre there, wherever the box lies on the page.
C25_OriginAtBoundingBox ==
  (Generated /\ extraOffsetX = 0 /\ extraOffsetY = 0) =>
    /\ origin = "Bounding box" =>
         /\ GcodeX(RectLeft(tpBB)) = 0
         /\ GcodeY(RectBottom(tpBB)) = 0
    /\ origin = "Centre" =>
         /\ GcodeX(RectLeft(tpBB) + tpBB.width \div 2) = 0
         /\ GcodeY(RectBottom(tpBB) - tpBB.height \div 2) = 0

\* C28: every pass of an inside outline with width >= cutterDia, the final
\* correcting pass included, runs between cutterDia/2 and width - cutterDia/2
\* inside the geometry, that is within the bounds given to mergePaths.
C28_InsidePassesWithinBounds ==
  (CamDone("outline") /\ camArgs.isInside
     /\ camArgs.width >= camArgs.cutterDia) =>
    \A i \in DOMAIN allPaths :
      /\ 2 * InsetOf(allPaths[i]) >= camArgs.cutterDia
      /\ 2 * InsetOf(allPaths[i]) <= 2 * camArgs.width - camArgs.cutterDia

\* C29: with an empty tab geometry separateTabs returns exactly one sub-path,
\* which holds every vertex of the tool path in order (after the start
\* vertex the walk begins from, if that is kept).
C29_NoTabsOnePath ==
  (separated.state /= "idle" /\ tabGeometry = << >>) =>
    /\ separated.state = "returned"
    /\ Len(separated.paths) = 1
    /\ \E lead \in 0..1 :
         /\ Len(separated.paths[1]) = Len(toolPath) + lead
         /\ \A i \in DOMAIN toolPath :
              separated.paths[1][i + lead] = toolPath[i]

----------------------------------------------------------------------------
(* Properties of App.tutorial *)

C23_Step ==
  /\ currentTutorialStep' >= currentTutorialStep
  /\ currentTutorialStep' /= currentTutorialStep =>
       /\ tutorialAlert' = currentTutorialStep'
       /\ \A r \in requestedSteps : tutorialAlert' > r

\* C23: currentTutorialStep never decreases, and the message of a step is
\* displayed only if the step is greater than every step an earlier call
\* asked for, the calls for steps without a message included.
C23_TutorialNeverBackwards == [][C23_Step]_vars

C23_StepNeverDecreases == [][currentTutorialStep' >= currentTutorialStep]_vars

----------------------------------------------------------------------------
(* Properties of SelectionViewModel *)

\* C22: numSelected is the number of selectedPath elements in the selection
\* group and is never negative, whatever the order of clicks, delayed click
\* handlers, double clicks and clearSelection calls.
C22_NumSelectedIsGroupSize ==
  /\ numSelected = Cardinality(svgGroup)
  /\ numSelected >= 0

C22_NumSelectedNotNegative == numSelected >= 0

----------------------------------------------------------------------------
(* Properties of MaterialViewModel *)

\* C30: for every thickness >= 0 and clearance > 0 and for both zOrigin
\* settings, zSafeMove > topZ >= botZ, topZ - botZ = thickness and
\* zSafeMove - topZ = clearance.
C30_MaterialLevels ==
  (thickness >= 0 /\ clearance > 0 /\ zOrigin \in ZOrigins) =>
    /\ Greater(zSafeMove, materialTopZ)
    /\ GreaterEq(materialTopZ, botZ)
    /\ Minus(materialTopZ, botZ) = Num(thickness)
    /\ Minus(zSafeMove, materialTopZ) = Num(clearance)

C30_Witness ==
  /\ zOrigin = "Bottom"
  /\ thickness = 3
  /\ clearance = 2
  /\ materialTopZ = Num(3)
  /\ zSafeMove = Num(5)

----------------------------------------------------------------------------
(* Initial states and specifications *)

\* nothing imported and nothing selected
InitSelectionIdle ==
  /\ svgContent = << >>
  /\ svgGroup = { }
  /\ numSelected = 0
  /\ clickTimers = << >>
  /\ copiesMade = 0

\* every step has a message
InitTutorialIdle ==
  /\ currentTutorialStep = -1
  /\ tutorialAlert = 0
  /\ tutorialSteps = 1..MaxStep
  /\ requestedSteps = { }

InitMaterialIdle ==
  /\ thickness = 10
  /\ clearance = 10
  /\ zOrigin = "Top"
  /\ materialTopZ = ComputedTopZ("Top", 10)
  /\ botZ = ComputedBotZ("Top", 10)
  /\ zSafeMove = ComputedZSafeMove("Top", 10, 10)

InitUiIdle == InitSelectionIdle /\ InitTutorialIdle /\ InitMaterialIdle

\* origin at the SVG page, no extra offsets
InitOriginIdle ==
  /\ origin = "SVG page"
  /\ extraOffsetX = 0
  /\ extraOffsetY = 0
  /\ svgBB = Rect(0, 0, 10, 10)
  /\ tpBB = Rect(2, 2, 4, 4)

InitGcode ==
  /\ operations \in OperationLists
  /\ units \in Units
  /\ returnTo00 = FALSE
  /\ passDepth \in PassDepths
  /\ maxCutDepth \in TabCutDepths
  /\ topZ \in TopZs
  /\ gcode = << >>
  /\ job = NoJob
  /\ alerts = << >>
  /\ genOutcome = "none"
  /\ jobTabs = << >>
  /\ toolDiameter = 2
  /\ InitOriginIdle

InitTabsIdle ==
  /\ toolPath = << >>
  /\ tabGeometry = << >>
  /\ separated = [ state |-> "idle", paths |-> << >> ]

InitCamIdle ==
  /\ camArgs = Args("none", 1, 2, 0, FALSE, TRUE, 0, << >>)
  /\ geometry = << >>
  /\ camPc = "idle"
  /\ current = << >>
  /\ allPaths = << >>
  /\ currentWidth = 0
  /\ clipPoly = NullClip
  /\ camResult = << >>

Init == InitGcode /\ InitTabsIdle /\ InitCamIdle /\ InitUiIdle

Next == generateGcode \/ setReturnTo00

Spec == Init /\ [][Next]_vars

\* generateGcode for every list of tabs within the bounds; the operations
\* differ in whether they are enabled
JobTabsOperations ==
  { l \in OperationLists :
      \A i \in DOMAIN l :
        l[i].toolPaths = 1 /\ l[i].operation = "Pocket" /\ l[i].cutDepth = 1 }

InitJobTabs ==
  /\ operations \in JobTabsOperations
  /\ units = "mm"
  /\ returnTo00 = FALSE
  /\ passDepth = 1
  /\ maxCutDepth = 1
  /\ topZ = 0
  /\ gcode = << >>
  /\ job = NoJob
  /\ alerts = << >>
  /\ genOutcome = "none"
  /\ jobTabs \in TabLists
  /\ toolDiameter \in ToolDiameters
  /\ InitOriginIdle
  /\ InitTabsIdle
  /\ InitCamIdle
  /\ InitUiIdle

SpecJobTabs == InitJobTabs /\ [][Next]_vars

\* the inputs of generateGcode change one at a time
InputsOperations == { l \in JobTabsOperations : Len(l) = 1 }

InitInputs ==
  /\ operations \in InputsOperations
  /\ units = "mm"
  /\ returnTo00 = FALSE
  /\ passDepth = 1
  /\ maxCutDepth = 1
  /\ topZ = 0
  /\ gcode = << >>
  /\ job = NoJob
  /\ alerts = << >>
  /\ genOutcome = "none"
  /\ jobTabs = << >>
  /\ toolDiameter = 2
  /\ InitOriginIdle
  /\ InitTabsIdle
  /\ InitCamIdle
  /\ InitUiIdle

NextInputs ==
  \/ generateGcode \/ setReturnTo00 \/ setUnits \/ setOrigin
  \/ setExtraOffsetX \/ setExtraOffsetY \/ setMaxCutDepth
  \/ addTab \/ addTabNothingClosed \/ removeTab

SpecInputs == InitInputs /\ [][NextInputs]_vars

\* separateTabs applied to every tool path and tab geometry within the bounds
InitGcodeIdle ==
  /\ operations = << >>
  /\ units = "mm"
  /\ returnTo00 = FALSE
  /\ passDepth = 0
  /\ maxCutDepth = 1
  /\ topZ = 0
  /\ gcode = << >>
  /\ job = NoJob
  /\ alerts = << >>
  /\ genOutcome = "none"
  /\ jobTabs = << >>
  /\ toolDiameter = 2
  /\ InitOriginIdle

InitTabs ==
  /\ InitGcodeIdle
  /\ InitUiIdle
  /\ InitCamIdle
  /\ toolPath \in ToolPaths
  /\ tabGeometry \in TabGeometries
  /\ separated = [ state |-> "idle", paths |-> << >> ]

NextTabs == separateTabs

SpecTabs == InitTabs /\ [][NextTabs]_vars

\* the operation compilers applied to every argument within the bounds
InitCam ==
  /\ InitGcodeIdle
  /\ InitUiIdle
  /\ InitTabsIdle
  /\ camArgs \in PocketArgs \cup OutlineArgs \cup EngraveArgs
  /\ geometry = camArgs.geometry
  /\ camPc = "start"
  /\ current = << >>
  /\ allPaths = << >>
  /\ currentWidth = 0
  /\ clipPoly = NullClip
  /\ camResult = << >>

NextCam ==
  \/ pocketStart \/ pocketLoop \/ pocketReturn
  \/ outlineStart \/ outlineLoop \/ outlineReturn
  \/ engrave

SpecCam == InitCam /\ [][NextCam]_vars

\* each enabled step of a call is eventually taken: the call runs on its own
SpecCamFair == SpecCam /\ WF_vars(NextCam)

\* tutorial called with any steps, for every set of steps with a message
InitTutorial ==
  /\ InitGcodeIdle
  /\ InitTabsIdle
  /\ InitCamIdle
  /\ InitSelectionIdle
  /\ InitMaterialIdle
  /\ currentTutorialStep = -1
  /\ tutorialAlert = 0
  /\ tutorialSteps \in SUBSET (1..MaxStep)
  /\ requestedSteps = { }

NextTutorial == tutorial

SpecTutorial == InitTutorial /\ [][NextTutorial]_vars

\* clicks and double clicks on every drawing within the bounds
InitSelection ==
  /\ InitGcodeIdle
  /\ InitTabsIdle
  /\ InitCamIdle
  /\ InitTutorialIdle
  /\ InitMaterialIdle
  /\ svgContent \in SvgContents
  /\ svgGroup = { }
  /\ numSelected = 0
  /\ clickTimers = << >>
  /\ copiesMade = 0

NextSelection == click \/ clickTimeout \/ dblclick \/ clearSelection

SpecSelection == InitSelection /\ [][NextSelection]_vars

\* generateGcode for every page, every tool path bounding box on it, every
\* origin and the extra offsets; one operation
InitOrigin ==
  /\ operations = << [ enabled |-> TRUE, toolPaths |-> 1,
                       operation |-> "Pocket", cutDepth |-> 1 ] >>
  /\ units = "mm"
  /\ returnTo00 = FALSE
  /\ passDepth = 1
  /\ maxCutDepth = 1
  /\ topZ = 0
  /\ gcode = << >>
  /\ job = NoJob
  /\ alerts = << >>
  /\ genOutcome = "none"
  /\ jobTabs = << >>
  /\ toolDiameter = 2
  /\ origin = "SVG page"
  /\ extraOffsetX = 0
  /\ extraOffsetY = 0
  /\ svgBB \in PageRects
  /\ tpBB \in { r \in ToolPathRects : RectWithin(r, svgBB) }
  /\ InitTabsIdle
  /\ InitCamIdle
  /\ InitUiIdle

NextOrigin ==
  generateGcode \/ setOrigin \/ setExtraOffsetX \/ setExtraOffsetY

SpecOrigin == InitOrigin /\ [][NextOrigin]_vars

\* the material card: thickness, clearance and zOrigin edited in any order
InitMaterial ==
  /\ InitGcodeIdle
  /\ InitTabsIdle
  /\ InitCamIdle
  /\ InitSelectionIdle
  /\ InitTutorialIdle
  /\ InitMaterialIdle

NextMaterial == setThickness \/ setClearance \/ setZOrigin

SpecMaterial == InitMaterial /\ [][NextMaterial]_vars

====
